---- MODULE Spec2Model ----
(***************************************************************************)
(* Model of the Ricochet lobby backend (src/main.py): the user and room   *)
(* registries, the three request handlers create_user, create_room and    *)
(* enter_room, the asyncio.Event room_list_modified with notify_modified,  *)
(* and one get_room_list coroutine per web socket subscriber.              *)
(*                                                                         *)
(* The handlers run on one asyncio event loop.  create_user, create_room   *)
(* and enter_room contain no await, so each is one atomic step.            *)
(* get_room_list suspends at websocket.accept(), at                        *)
(* room_list_modified.wait() and at websocket.send_json(); the code        *)
(* between two suspension points is one atomic step.                       *)
(***************************************************************************)
EXTENDS Integers, Sequences, FiniteSets, TLC

\* ---------------------------------------------------------------- bounds
MaxUsers == 2
MaxRooms == 2

\* Inputs of the handlers.
Names     == {"Alice", "Bob"}
RoomNames == {"Lobby"}
\* Ids below, inside and above the index range of a list.
UserIdArgs == {-1, 0, 1, 2}
RoomIdArgs == {-1, 0, 1, 2}

\* The web socket connections (one get_room_list coroutine each).
Subs == {"A", "B"}

\* ------------------------------------------------------- RoomInfo.Status
WAITING == 0
RUNNING == 1

\* The local variable data before its first assignment (no snapshot is like it).
NoData == <<[name |-> "", owner |-> "", num_players |-> -1, status |-> -1]>>
\* woken_by of a coroutine that no notification has woken.
NoRoom == -1

\* ret when no handler call awaits its response.
NoCall == [op |-> "none", name |-> "", room_id |-> NoRoom, user_id |-> NoRoom, result |-> -1]

VARIABLES
    user_list,           \* list[str]: user names, index = user ID (0-based)
    room_list,           \* list[RoomInfo], index = room ID (0-based)
    room_list_modified,  \* the flag of the asyncio.Event
    pc,                  \* per subscriber: where its get_room_list coroutine is
    data,                \* per subscriber: the local variable data (last built snapshot)
    woken_by,            \* per subscriber: Len(room_list) - 1 at the notify that woke it
    notify_count,        \* number of notify_modified calls so far
    ret                  \* the last handler call: its arguments and return value

vars == <<user_list, room_list, room_list_modified, pc, data, woken_by, notify_count, ret>>

\* ------------------------------------------------------------- RoomInfo
\* (variant: the owner is not added)
post_init_Skip(room) == room
\* __post_init__: appends the owner to the player list.
post_init(room) == [room EXCEPT !.player_list = Append(@, room.owner_id)]

\* RoomInfo(name=..., owner_id=...): the defaults, then __post_init__.
RoomInfo(name, owner_id) ==
    post_init([name |-> name, owner_id |-> owner_id,
               player_list |-> <<>>, status |-> WAITING])

\* Python's 0-based indexing into a list kept as a 1-based sequence.
At(list, i) == list[i + 1]

\* ---------------------------------------------------------- asyncio.Event
\* Event.set(): the flag becomes true and every pending waiter's future
\* gets its result, so each coroutine blocked in wait() is scheduled to resume.
Event_set_flag(flag) == TRUE
\* (variant: a notify-one that wakes a single waiter)
Event_set_waiters_One(p) ==
    IF \E s \in Subs : p[s] = "waiting"
    THEN [p EXCEPT ![CHOOSE s \in Subs : p[s] = "waiting"] = "woken"]
    ELSE p
Event_set_waiters(p) == [s \in Subs |-> IF p[s] = "waiting" THEN "woken" ELSE p[s]]
\* Event.clear(): the flag becomes false.
Event_clear(flag) == FALSE

\* (variant: set() without the clear())
notify_modified_flag_NoClear(flag) == Event_set_flag(flag)
\* notify_modified(modified): modified.set(); modified.clear().
notify_modified_flag(flag) == Event_clear(Event_set_flag(flag))

\* The step of a handler that calls notify_modified(room_list_modified);
\* rooms is the room list at the call.
notify_modified(rooms) ==
    /\ room_list_modified' = notify_modified_flag(room_list_modified)
    /\ pc' = Event_set_waiters(pc)
    /\ woken_by' = [s \in Subs |-> IF pc[s] = "waiting" THEN Len(rooms) - 1 ELSE woken_by[s]]
    /\ notify_count' = notify_count + 1

\* ------------------------------------------------------------- handlers
\* (variant: returns the length of the list, not the last index)
create_user_ReturnLen(name) ==
    /\ ret = NoCall
    /\ Len(user_list) < MaxUsers
    /\ user_list' = Append(user_list, name)
    /\ ret' = [op |-> "create_user", name |-> name, room_id |-> NoRoom, user_id |-> NoRoom,
               result |-> Len(user_list')]
    /\ UNCHANGED <<room_list, room_list_modified, pc, data, woken_by, notify_count>>

\* create_user(name): always appends, returns the new index.
create_user(name) ==
    /\ ret = NoCall
    /\ Len(user_list) < MaxUsers
    /\ user_list' = Append(user_list, name)
    /\ ret' = [op |-> "create_user", name |-> name, room_id |-> NoRoom, user_id |-> NoRoom,
               result |-> Len(user_list') - 1]
    /\ UNCHANGED <<room_list, room_list_modified, pc, data, woken_by, notify_count>>

\* (variant: the range check without its lower bound; Python accepts user_list[-1])
create_room_NoLowerBound(name, user_id) ==
    /\ ret = NoCall
    /\ IF user_id >= Len(user_list)
       THEN /\ ret' = [op |-> "create_room", name |-> name, room_id |-> NoRoom,
                       user_id |-> user_id, result |-> -1]
            /\ UNCHANGED <<user_list, room_list, room_list_modified, pc, data,
                           woken_by, notify_count>>
       ELSE /\ Len(room_list) < MaxRooms
            /\ room_list' = Append(room_list, RoomInfo(name, user_id))
            /\ notify_modified(room_list')
            /\ ret' = [op |-> "create_room", name |-> name, room_id |-> NoRoom,
                       user_id |-> user_id, result |-> Len(room_list') - 1]
            /\ UNCHANGED <<user_list, data>>

\* (variant: returns the length of the list, not the last index)
create_room_ReturnLen(name, user_id) ==
    /\ ret = NoCall
    /\ IF user_id < 0 \/ user_id >= Len(user_list)
       THEN /\ ret' = [op |-> "create_room", name |-> name, room_id |-> NoRoom,
                       user_id |-> user_id, result |-> -1]
            /\ UNCHANGED <<user_list, room_list, room_list_modified, pc, data,
                           woken_by, notify_count>>
       ELSE /\ Len(room_list) < MaxRooms
            /\ room_list' = Append(room_list, RoomInfo(name, user_id))
            /\ notify_modified(room_list')
            /\ ret' = [op |-> "create_room", name |-> name, room_id |-> NoRoom,
                       user_id |-> user_id, result |-> Len(room_list')]
            /\ UNCHANGED <<user_list, data>>

\* create_room(name, user_id): -1 for an unregistered user; otherwise appends
\* the room, notifies, returns the new index.
create_room(name, user_id) ==
    /\ ret = NoCall
    /\ IF user_id < 0 \/ user_id >= Len(user_list)
       THEN /\ ret' = [op |-> "create_room", name |-> name, room_id |-> NoRoom,
                       user_id |-> user_id, result |-> -1]
            /\ UNCHANGED <<user_list, room_list, room_list_modified, pc, data,
                           woken_by, notify_count>>
       ELSE /\ Len(room_list) < MaxRooms
            /\ room_list' = Append(room_list, RoomInfo(name, user_id))
            /\ notify_modified(room_list')
            /\ ret' = [op |-> "create_room", name |-> name, room_id |-> NoRoom,
                       user_id |-> user_id, result |-> Len(room_list') - 1]
            /\ UNCHANGED <<user_list, data>>

\* (variant: a user who is already a player is turned away)
enter_room_result_RejectMember(room_id, user_id) ==
    IF room_id < 0 \/ room_id >= Len(room_list) THEN FALSE
    ELSE IF user_id < 0 \/ user_id >= Len(user_list) THEN FALSE
    ELSE IF At(room_list, room_id).status = RUNNING THEN FALSE
    ELSE IF \E k \in 1 .. Len(At(room_list, room_id).player_list) :
                At(room_list, room_id).player_list[k] = user_id THEN FALSE
    ELSE TRUE

\* (variant: the status check left out)
enter_room_result_NoStatusCheck(room_id, user_id) ==
    IF room_id < 0 \/ room_id >= Len(room_list) THEN FALSE
    ELSE IF user_id < 0 \/ user_id >= Len(user_list) THEN FALSE
    ELSE TRUE

\* (variant: the user ID is not checked)
enter_room_result_NoUserCheck(room_id, user_id) ==
    IF room_id < 0 \/ room_id >= Len(room_list) THEN FALSE
    ELSE IF At(room_list, room_id).status = RUNNING THEN FALSE
    ELSE TRUE

\* The return value of enter_room(room_id, user_id).
enter_room_result(room_id, user_id) ==
    IF room_id < 0 \/ room_id >= Len(room_list) THEN FALSE
    ELSE IF user_id < 0 \/ user_id >= Len(user_list) THEN FALSE
    ELSE IF At(room_list, room_id).status = RUNNING THEN FALSE
    ELSE TRUE

\* enter_room(room_id, user_id): validates and returns; it assigns nothing.
enter_room(room_id, user_id) ==
    /\ ret = NoCall
    /\ ret' = [op |-> "enter_room", name |-> "", room_id |-> room_id,
               user_id |-> user_id, result |-> enter_room_result(room_id, user_id)]
    /\ UNCHANGED <<user_list, room_list, room_list_modified, pc, data,
                   woken_by, notify_count>>

\* ---------------------------------------------------------- get_room_list
\* (variant: the newest room left out)
build_snapshot_DropLast(users, rooms) ==
    [i \in 1 .. Len(rooms) - 1 |->
        [name        |-> rooms[i].name,
         owner       |-> At(users, rooms[i].owner_id),
         num_players |-> Len(rooms[i].player_list),
         status      |-> rooms[i].status]]

\* (variant: the owner looked up as user_list[-1])
build_snapshot_LastUser(users, rooms) ==
    [i \in 1 .. Len(rooms) |->
        [name        |-> rooms[i].name,
         owner       |-> users[Len(users)],
         num_players |-> Len(rooms[i].player_list),
         status      |-> rooms[i].status]]

\* (variant: the rooms listed newest first)
build_snapshot_Reversed(users, rooms) ==
    [i \in 1 .. Len(rooms) |->
        [name        |-> rooms[Len(rooms) + 1 - i].name,
         owner       |-> At(users, rooms[Len(rooms) + 1 - i].owner_id),
         num_players |-> Len(rooms[Len(rooms) + 1 - i].player_list),
         status      |-> rooms[Len(rooms) + 1 - i].status]]

\* (variant: only the newest room is sent)
build_snapshot_Newest(users, rooms) ==
    [i \in 1 .. (IF Len(rooms) = 0 THEN 0 ELSE 1) |->
        [name        |-> rooms[Len(rooms)].name,
         owner       |-> At(users, rooms[Len(rooms)].owner_id),
         num_players |-> Len(rooms[Len(rooms)].player_list),
         status      |-> rooms[Len(rooms)].status]]

\* The list comprehension that builds data from room_list and user_list.
build_snapshot(users, rooms) ==
    [i \in 1 .. Len(rooms) |->
        [name        |-> rooms[i].name,
         owner       |-> At(users, rooms[i].owner_id),
         num_players |-> Len(rooms[i].player_list),
         status      |-> rooms[i].status]]

\* (variant: wait() returns without blocking)
wait_entry_NoBlock(flag) == "woken"
\* Event.wait() as the coroutine calls it: returns at once when the flag is
\* set, otherwise the coroutine blocks on a new future.
wait_entry(flag) == IF flag THEN "woken" ELSE "waiting"

\* websocket.accept() returns; the loop starts and calls wait().
Accept(s) ==
    /\ pc[s] = "accepting"
    /\ pc' = [pc EXCEPT ![s] = wait_entry(room_list_modified)]
    /\ UNCHANGED <<user_list, room_list, room_list_modified, data, woken_by,
                   notify_count, ret>>

\* wait() returns: data is built and send_json(data) starts.
Resume(s) ==
    /\ pc[s] = "woken"
    /\ data' = [data EXCEPT ![s] = build_snapshot(user_list, room_list)]
    /\ pc' = [pc EXCEPT ![s] = "sending"]
    /\ UNCHANGED <<user_list, room_list, room_list_modified, woken_by, notify_count, ret>>

\* send_json(data) returns; the loop calls wait() again.
SendDone(s) ==
    /\ pc[s] = "sending"
    /\ pc' = [pc EXCEPT ![s] = wait_entry(room_list_modified)]
    /\ woken_by' = [woken_by EXCEPT ![s] = NoRoom]
    /\ UNCHANGED <<user_list, room_list, room_list_modified, data, notify_count, ret>>

\* (variant: the failure of one send ends every subscriber's loop)
SendFail_ClosesAll(s) ==
    /\ pc[s] = "sending"
    /\ pc' = [t \in Subs |-> "closed"]
    /\ data' = [t \in Subs |-> NoData]
    /\ woken_by' = [t \in Subs |-> NoRoom]
    /\ UNCHANGED <<user_list, room_list, room_list_modified, notify_count, ret>>

\* send_json(data) raises (connection closed, or another web socket error):
\* the loop is left and the coroutine ends; its locals are gone.
SendFail(s) ==
    /\ pc[s] = "sending"
    /\ pc' = [pc EXCEPT ![s] = "closed"]
    /\ data' = [data EXCEPT ![s] = NoData]
    /\ woken_by' = [woken_by EXCEPT ![s] = NoRoom]
    /\ UNCHANGED <<user_list, room_list, room_list_modified, notify_count, ret>>

\* The return value of the handler reaches the client as the HTTP response.
\* Requests are issued one at a time: the next handler runs after it.
Respond ==
    /\ ret # NoCall
    /\ ret' = NoCall
    /\ UNCHANGED <<user_list, room_list, room_list_modified, pc, data, woken_by, notify_count>>

\* ------------------------------------------------------------ the system
Init ==
    /\ user_list = <<>>
    /\ room_list = <<>>
    /\ room_list_modified = FALSE
    /\ pc = [s \in Subs |-> "accepting"]
    /\ data = [s \in Subs |-> NoData]
    /\ woken_by = [s \in Subs |-> NoRoom]
    /\ notify_count = 0
    /\ ret = NoCall

Next ==
    \/ \E name \in Names : create_user(name)
    \/ \E name \in RoomNames, user_id \in UserIdArgs : create_room(name, user_id)
    \/ \E room_id \in RoomIdArgs, user_id \in UserIdArgs : enter_room(room_id, user_id)
    \/ Respond
    \/ \E s \in Subs : Accept(s)
    \/ \E s \in Subs : Resume(s)
    \/ \E s \in Subs : SendDone(s)
    \/ \E s \in Subs : SendFail(s)

Spec == Init /\ [][Next]_vars

\* The event loop runs every coroutine that is ready: a pending accept
\* completes, a woken coroutine resumes, and a send that does not fail returns.
FairSpec ==
    /\ Spec
    /\ WF_vars(Respond)
    /\ \A s \in Subs : WF_vars(Accept(s)) /\ WF_vars(Resume(s)) /\ WF_vars(SendDone(s))

\* enter_room on the inputs RoomInfo admits.  No handler of main.py assigns
\* status, so a room with status RUNNING is drawn here as an input: the
\* registry holds one user and one room of either status.
InitStatus ==
    /\ user_list \in {<<name>> : name \in Names}
    /\ room_list \in {<<[RoomInfo(name, 0) EXCEPT !.status = st]>> :
                         name \in RoomNames, st \in {WAITING, RUNNING}}
    /\ room_list_modified = FALSE
    /\ pc = [s \in Subs |-> "accepting"]
    /\ data = [s \in Subs |-> NoData]
    /\ woken_by = [s \in Subs |-> NoRoom]
    /\ notify_count = 0
    /\ ret = NoCall

SpecStatus == InitStatus /\ [][Next]_vars

\* ============================================================ properties
\* A step in which the handler op runs (ret receives its call).
Called(op) == ret.op = "none" /\ ret'.op = op

\* The user IDs in the player list of the room with index room_id.
Players(room_id) ==
    {At(room_list, room_id).player_list[k] :
        k \in 1 .. Len(At(room_list, room_id).player_list)}

ValidRoom(room_id) == room_id >= 0 /\ room_id < Len(room_list)
ValidUser(user_id) == user_id >= 0 /\ user_id < Len(user_list)

\* C1 (as claimed): a subscriber that stays connected and has received a
\* snapshot eventually holds, blocked in wait(), the snapshot of the final
\* registry: no notification that fires while it is sending is lost to it.
C1_LatestState ==
    \A s \in Subs :
        (<>[](pc[s] # "closed") /\ <>(data[s] # NoData))
            => <>[](pc[s] = "waiting" /\ data[s] = build_snapshot(user_list, room_list))

\* C2 (as claimed): a subscriber that blocks in wait() has been sent a
\* snapshot before: the loop sends the initial state before it first waits.
C2_InitialSnapshot ==
    \A s \in Subs : pc[s] = "waiting" => data[s] # NoData

\* C3: a successful create_room makes exactly one notification, which wakes
\* every coroutine blocked in wait() and no other; a woken coroutine goes on
\* to exactly one send, after which it waits again or ends.
C3_BroadcastWake ==
    [][ /\ (Called("create_room") /\ ret'.result >= 0)
            => /\ notify_count' = notify_count + 1
               /\ \A s \in Subs :
                    pc'[s] = IF pc[s] = "waiting" THEN "woken" ELSE pc[s]
        /\ \A s \in Subs :
            /\ pc[s] = "woken" => pc'[s] \in {"woken", "sending"}
            /\ pc[s] = "sending" => pc'[s] \in {"sending", "waiting", "closed"}
      ]_vars

\* Both subscribers were blocked in wait() and the same create_room woke them.
C3_Witness ==
    /\ ret.op = "create_room"
    /\ ret.result >= 0
    /\ \A s \in Subs : pc[s] = "woken" /\ woken_by[s] = ret.result

\* C4: the event's flag is clear after every step; a coroutine that calls
\* wait() blocks; a blocked coroutine leaves wait() only in a step that
\* notifies; a notification changes nothing of a coroutine that is not blocked.
C4_NoGhostWake ==
    [][ /\ room_list_modified' = FALSE
        /\ \A s \in Subs :
            /\ (pc[s] \in {"accepting", "sending"} /\ pc'[s] \notin {pc[s], "closed"})
                    => pc'[s] = "waiting"
            /\ (pc[s] = "waiting" /\ pc'[s] # "waiting")
                    => (pc'[s] = "woken" /\ notify_count' = notify_count + 1)
            /\ (pc[s] # "waiting" /\ notify_count' # notify_count)
                    => (pc'[s] = pc[s] /\ woken_by'[s] = woken_by[s])
      ]_vars

\* A notification fired with nobody waiting; both subscribers called wait()
\* after it and are blocked without having been sent anything.
C4_Witness ==
    /\ notify_count >= 1
    /\ \A s \in Subs : pc[s] = "waiting" /\ data[s] = NoData

\* C5: the snapshot a coroutine builds after a notification woke it holds the
\* room whose creation made that notification, with its name and owner.
C5_ReadAfterWrite ==
    \A s \in Subs :
        (pc[s] = "sending" /\ woken_by[s] # NoRoom)
            => /\ Len(data[s]) > woken_by[s]
               /\ At(data[s], woken_by[s]).name = At(room_list, woken_by[s]).name
               /\ At(data[s], woken_by[s]).owner =
                      At(user_list, At(room_list, woken_by[s]).owner_id)

\* Woken by the creation of room 0, a coroutine resumed after room 1 was
\* created too and sends both.
C5_Witness ==
    \E s \in Subs : pc[s] = "sending" /\ woken_by[s] = 0 /\ Len(data[s]) = 2

\* C6 (as claimed): enter_room of a valid user who is not yet a player into
\* a valid WAITING room returns True and appends the user to the end of the
\* room's player list.
C6_EnterAppends ==
    [][ ( /\ Called("enter_room")
          /\ ValidRoom(ret'.room_id) /\ ValidUser(ret'.user_id)
          /\ At(room_list, ret'.room_id).status = WAITING
          /\ ret'.user_id \notin Players(ret'.room_id) )
        => /\ ret'.result = TRUE
           /\ At(room_list', ret'.room_id).player_list =
                  Append(At(room_list, ret'.room_id).player_list, ret'.user_id)
      ]_vars

\* C7 (as claimed): such an enter_room makes one notification, which wakes
\* every coroutine blocked in wait().
C7_EnterNotifies ==
    [][ ( /\ Called("enter_room")
          /\ ValidRoom(ret'.room_id) /\ ValidUser(ret'.user_id)
          /\ At(room_list, ret'.room_id).status = WAITING
          /\ ret'.user_id \notin Players(ret'.room_id)
          /\ \E s \in Subs : pc[s] = "waiting" )
        => /\ notify_count' = notify_count + 1
           /\ \A s \in Subs : pc[s] = "waiting" => pc'[s] = "woken"
      ]_vars

\* C8 (as claimed): enter_room of a user who is already a player of the room
\* returns False and leaves the room list as it was.
C8_MemberRejected ==
    [][ ( /\ Called("enter_room")
          /\ ValidRoom(ret'.room_id) /\ ValidUser(ret'.user_id)
          /\ ret'.user_id \in Players(ret'.room_id) )
        => (ret'.result = FALSE /\ room_list' = room_list)
      ]_vars

\* C8 (amended): enter_room of a user who is already a player of a WAITING
\* room returns True and leaves the room list as it was.
C8_MemberAccepted ==
    [][ ( /\ Called("enter_room")
          /\ ValidRoom(ret'.room_id) /\ ValidUser(ret'.user_id)
          /\ At(room_list, ret'.room_id).status = WAITING
          /\ ret'.user_id \in Players(ret'.room_id) )
        => (ret'.result = TRUE /\ room_list' = room_list)
      ]_vars

\* The owner of a room entered it again and got True.
C8_Witness ==
    /\ ret.op = "enter_room"
    /\ ValidRoom(ret.room_id) /\ ValidUser(ret.user_id)
    /\ ret.user_id = At(room_list, ret.room_id).owner_id
    /\ ret.user_id \in Players(ret.room_id)
    /\ ret.result = TRUE

\* C9: enter_room of a valid user into a RUNNING room returns False and
\* leaves the room list as it was.
C9_RunningRejected ==
    [][ ( /\ Called("enter_room")
          /\ ValidRoom(ret'.room_id) /\ ValidUser(ret'.user_id)
          /\ At(room_list, ret'.room_id).status = RUNNING )
        => (ret'.result = FALSE /\ room_list' = room_list)
      ]_vars

\* A second user, not a player of the RUNNING room 0, tried to enter it.
C9_Witness ==
    /\ ret.op = "enter_room"
    /\ ValidRoom(ret.room_id) /\ ValidUser(ret.user_id)
    /\ At(room_list, ret.room_id).status = RUNNING
    /\ ret.user_id \notin Players(ret.room_id)
    /\ ret.result = FALSE

\* C10: create_room for a user ID outside the user list returns -1, leaves
\* the room list as it was and notifies nobody: no coroutine leaves wait().
C10_InvalidOwner ==
    [][ ( /\ Called("create_room")
          /\ ~ValidUser(ret'.user_id) )
        => /\ ret'.result = -1
           /\ room_list' = room_list
           /\ notify_count' = notify_count
           /\ pc' = pc
           /\ room_list_modified' = room_list_modified
      ]_vars

\* With a user and a room in place and a coroutine blocked in wait(), a
\* create_room with a user ID past the end of the list returned -1.
C10_Witness ==
    /\ ret.op = "create_room"
    /\ ret.user_id >= Len(user_list)
    /\ ret.result = -1
    /\ Len(user_list) >= 1
    /\ Len(room_list) >= 1
    /\ \E s \in Subs : pc[s] = "waiting"

\* C11: create_user returns the number of create_user calls made before it
\* (the users are never removed, so that is the old length of user_list),
\* and the returned ID indexes the name passed; earlier users keep their IDs.
C11_UserIds ==
    [][ Called("create_user")
        => /\ ret'.result = Len(user_list)
           /\ At(user_list', ret'.result) = ret'.name
           /\ Len(user_list') = Len(user_list) + 1
           /\ \A i \in 1 .. Len(user_list) : user_list'[i] = user_list[i]
      ]_vars

\* The second create_user, made after a room was created, returned 1 for
\* a name other than the first user's.
C11_Witness ==
    /\ ret.op = "create_user"
    /\ ret.result = 1
    /\ At(user_list, 1) = ret.name
    /\ At(user_list, 0) # ret.name
    /\ Len(room_list) >= 1

\* C12: create_room with an existing owner appends exactly one room, whose
\* player list is [owner_id] and whose status is WAITING, and returns its index.
C12_RoomCreated ==
    [][ (Called("create_room") /\ ValidUser(ret'.user_id))
        => /\ Len(room_list') = Len(room_list) + 1
           /\ \A i \in 1 .. Len(room_list) : room_list'[i] = room_list[i]
           /\ ret'.result = Len(room_list)
           /\ At(room_list', ret'.result) =
                  [name |-> ret'.name, owner_id |-> ret'.user_id,
                   player_list |-> <<ret'.user_id>>, status |-> WAITING]
      ]_vars

\* The second room was created, by the second user.
C12_Witness ==
    /\ ret.op = "create_room"
    /\ ret.result = 1
    /\ ret.user_id = 1
    /\ At(room_list, 1).player_list = <<1>>
    /\ At(room_list, 1).status = WAITING

\* C13: the snapshot a coroutine builds has one entry per room, in the order
\* of room_list; entry i carries room i's name, the name of the user its
\* owner_id indexes, the length of its player list, and 0 for a WAITING
\* room, 1 for a RUNNING one.
C13_SnapshotShape ==
    [][ \A s \in Subs :
          (pc[s] = "woken" /\ pc'[s] = "sending")
          => /\ Len(data'[s]) = Len(room_list)
             /\ \A i \in 1 .. Len(room_list) :
                  /\ data'[s][i].name = room_list[i].name
                  /\ data'[s][i].owner = At(user_list, room_list[i].owner_id)
                  /\ data'[s][i].num_players = Len(room_list[i].player_list)
                  /\ data'[s][i].status = IF room_list[i].status = WAITING THEN 0 ELSE 1
      ]_vars

\* A snapshot in flight lists a RUNNING room of the first user and then a
\* WAITING room of a second user with another name.
C13_Witness ==
    \E s \in Subs :
        /\ pc[s] = "sending"
        /\ Len(data[s]) = 2
        /\ data[s][1].status = 1
        /\ data[s][2].status = 0
        /\ data[s][1].owner # data[s][2].owner

\* C14: enter_room with a room ID or a user ID outside its list returns
\* False, leaves user_list and room_list as they were and notifies nobody.
C14_InvalidIds ==
    [][ ( /\ Called("enter_room")
          /\ (~ValidRoom(ret'.room_id) \/ ~ValidUser(ret'.user_id)) )
        => /\ ret'.result = FALSE
           /\ user_list' = user_list
           /\ room_list' = room_list
           /\ notify_count' = notify_count
           /\ pc' = pc
           /\ room_list_modified' = room_list_modified
      ]_vars

\* With two users and a room, and a coroutine blocked in wait(), enter_room
\* of the existing room for a user ID past the end of the list returned False.
C14_Witness ==
    /\ ret.op = "enter_room"
    /\ ValidRoom(ret.room_id)
    /\ ret.user_id >= Len(user_list)
    /\ Len(user_list) = 2
    /\ ret.result = FALSE
    /\ \E s \in Subs : pc[s] = "waiting"

\* C15: a coroutine whose send fails is closed in that step, and a closed
\* coroutine never moves again; the step changes neither list nor any other
\* coroutine; and beside a closed coroutine, a blocked one is still woken by
\* every notification and then builds and sends the current snapshot.
C15_Isolation ==
    [][ \A s \in Subs :
          /\ pc[s] = "closed" => (pc'[s] = "closed" /\ data'[s] = data[s])
          /\ (pc[s] = "sending" /\ pc'[s] = "closed")
                => /\ user_list' = user_list
                   /\ room_list' = room_list
                   /\ \A t \in Subs \ {s} :
                        pc'[t] = pc[t] /\ data'[t] = data[t] /\ woken_by'[t] = woken_by[t]
          /\ pc[s] = "closed"
                => \A t \in Subs \ {s} :
                     /\ (pc[t] = "waiting" /\ notify_count' # notify_count)
                            => pc'[t] = "woken"
                     /\ (pc[t] = "woken" /\ pc'[t] # "woken")
                            => /\ pc'[t] = "sending"
                               /\ data'[t] = build_snapshot(user_list, room_list)
      ]_vars

\* One subscriber's loop has ended on a failed send; the other one was woken
\* by the creation of the second room and sends both rooms.
C15_Witness ==
    \E s \in Subs, t \in Subs :
        /\ pc[s] = "closed"
        /\ pc[t] = "sending"
        /\ woken_by[t] = 1
        /\ Len(data[t]) = 2

\* C16: the player list of every room is non-empty, holds the room's
\* owner_id, holds no user ID twice, and holds only IDs that index user_list.
C16_RoomWellFormed ==
    \A i \in 1 .. Len(room_list) :
        LET players == room_list[i].player_list IN
        /\ Len(players) >= 1
        /\ \E k \in 1 .. Len(players) : players[k] = room_list[i].owner_id
        /\ \A k, l \in 1 .. Len(players) : players[k] = players[l] => k = l
        /\ \A k \in 1 .. Len(players) : players[k] >= 0 /\ players[k] < Len(user_list)

\* Two rooms of two owners, after enter_room was called for the user who is
\* not a player of room 0.
C16_Witness ==
    /\ Len(room_list) = 2
    /\ At(room_list, 0).owner_id # At(room_list, 1).owner_id
    /\ ret.op = "enter_room"
    /\ ret.room_id = 0
    /\ ret.user_id = At(room_list, 1).owner_id
    /\ ret.result = TRUE

\* The summary of the registry as it was when it held its first k rooms
\* (rooms are only appended and never change, users are only appended).
SummaryAt(k) ==
    [i \in 1 .. k |->
        [name        |-> room_list[i].name,
         owner       |-> At(user_list, room_list[i].owner_id),
         num_players |-> Len(room_list[i].player_list),
         status      |-> room_list[i].status]]

\* C17: a snapshot in flight is the summary of the registry at one instant:
\* of all the rooms that existed at some moment not before the notification
\* that woke the coroutine, each entry whole; it mixes no two states.
C17_PointInTime ==
    \A s \in Subs :
        pc[s] = "sending"
        => \E k \in 0 .. Len(room_list) :
              /\ k >= woken_by[s] + 1
              /\ data[s] = SummaryAt(k)

\* While a coroutine sends the one-room snapshot it built after the first
\* notification, a second user and a second room have been created.
C17_Witness ==
    \E s \in Subs :
        /\ pc[s] = "sending"
        /\ woken_by[s] = 0
        /\ data[s] = SummaryAt(1)
        /\ Len(room_list) = 2
        /\ Len(user_list) = 2
        /\ At(room_list, 1).owner_id = 1

\* C18: the snapshot a coroutine builds has at least as many rooms as the
\* one it built before, with the same name and owner at every earlier index
\* and a num_players that is not smaller.
C18_Monotone ==
    [][ \A s \in Subs :
          (pc[s] = "woken" /\ pc'[s] = "sending" /\ data[s] # NoData)
          => /\ Len(data'[s]) >= Len(data[s])
             /\ \A i \in 1 .. Len(data[s]) :
                  /\ data'[s][i].name = data[s][i].name
                  /\ data'[s][i].owner = data[s][i].owner
                  /\ data'[s][i].num_players >= data[s][i].num_players
      ]_vars

\* A coroutine that sent a one-room snapshot is woken again; the registry
\* now holds a second room of another owner with another name.
C18_Witness ==
    \E s \in Subs :
        /\ pc[s] = "woken"
        /\ data[s] # NoData
        /\ Len(data[s]) = 1
        /\ Len(room_list) = 2
        /\ At(user_list, At(room_list, 1).owner_id) # data[s][1].owner

\* C19: a coroutine starts a send only when a notification has woken it
\* since its last send: it starts from the woken state with a wake-up on
\* record; only a step that notifies records a wake-up, and only for a
\* coroutine blocked in wait(); the end of the send clears the record.
C19_NoSpuriousPush ==
    [][ \A s \in Subs :
          /\ (pc'[s] = "sending" /\ pc[s] # "sending")
                => (pc[s] = "woken" /\ woken_by[s] # NoRoom)
          /\ (woken_by'[s] # woken_by[s] /\ woken_by'[s] # NoRoom)
                => (pc[s] = "waiting" /\ notify_count' = notify_count + 1)
          /\ (pc[s] = "sending" /\ pc'[s] # "sending") => woken_by'[s] = NoRoom
      ]_vars

\* A coroutine that has sent a snapshot and waited again was woken by the
\* second notification and is about to send once more.
C19_Witness ==
    \E s \in Subs :
        /\ pc[s] = "woken"
        /\ data[s] # NoData
        /\ woken_by[s] = 1
        /\ notify_count = 2

\* C20: a successful create_room returns the number of successful
\* create_room calls before it (every such call notifies once and failed
\* calls do neither), and that ID indexes the room made from its arguments.
C20_RoomIds ==
    (ret.op = "create_room" /\ ret.result # -1)
    => /\ ret.result = notify_count - 1
       /\ ret.result = Len(room_list) - 1
       /\ At(room_list, ret.result).name = ret.name
       /\ At(room_list, ret.result).owner_id = ret.user_id

\* The second room was created by the second user while one coroutine was
\* sending and the other was blocked in wait() until then.
C20_Witness ==
    /\ ret.op = "create_room"
    /\ ret.result = 1
    /\ ret.user_id = 1
    /\ \E s \in Subs, t \in Subs : pc[s] = "sending" /\ pc[t] = "woken" /\ woken_by[t] = 1

====
